---- MODULE Spec2Model ----
(***************************************************************************)
(* pingap: the request pipeline of proxy::Server (src/proxy/server.rs),    *)
(* the construction of a Server from the configuration, and the cache      *)
(* plugin (src/plugin/cache.rs).                                           *)
(*                                                                         *)
(* A request is one task of the proxy framework.  The framework calls the  *)
(* handlers of `impl ProxyHttp for Server` in a fixed order; every handler *)
(* is one action below, except request_filter, whose two atomic counter    *)
(* updates are two steps so that other requests can run between them.      *)
(* The counters are far from the width of AtomicI32/AtomicU64 within the   *)
(* bounds, so they are plain integers.                                     *)
(***************************************************************************)
EXTENDS Integers, Sequences, FiniteSets, TLC

VARIABLES
    stage,        \* "conf" | "server_conf" | "server" | "running" | "error"
                  \* (construction), "plugin_conf" | "plugin" | "plugin_error"
    conf,         \* the PingapConf the process was started with
    serverConf,   \* the ServerConf handed to Server::new
    server,       \* the Server: admin flag and location list
    cache_plugin, \* the Cache plugin instance (result of Cache::new)
    cache_value,  \* the configuration string Cache::new was given
    bg_services,  \* ServerServices.bg_services: the upstream each refreshes
    env,          \* what the peers and the clients of this run can do
    accepted,     \* Server.accepted
    processing,   \* Server.processing
    inputs,       \* request -> the request that will arrive (or no_request)
    pc,           \* request -> position of its task in the pipeline
    ctx,          \* request -> State (the per-request context)
    session,      \* request -> the mutable part of the downstream session
    err,          \* request -> the error being handled
    code,         \* request -> the value fail_to_proxy returned
    result,       \* request -> "" | "Completed" | "Failed"
    trace,        \* request -> the handlers that ran for it, in order
    logged        \* request -> how many times logging ran for it

vars == <<stage, conf, serverConf, server, cache_plugin, cache_value,
          bg_services, env,
          accepted, processing, inputs, pc, ctx, session, err, code, result, trace, logged>>

pipeline_vars == <<accepted, processing, pc, ctx, session, err, code, result,
                   trace, logged>>

-----------------------------------------------------------------------------
(* Bounds of the model *)

\* requests in one burst
MaxReq == 2
\* query pairs in the configuration string of a plugin
MaxQuery == 2
\* locations in one configuration
MaxLocs == 2
\* weights are 1..MaxWeight
MaxWeight == 2
\* body chunks of one upstream response
MaxChunks == 1
MaxInterim == 1

Reqs == 1..MaxReq

-----------------------------------------------------------------------------
(* Option<usize>::None for State.location_index, Option<StatusCode>::None  *)
(* for State.status and for the session's written response.                *)
NoIndex == -1
NoStatus == 0

-----------------------------------------------------------------------------
(* Sequences *)

IsPrefix(p, s) == Len(p) <= Len(s) /\ SubSeq(s, 1, Len(p)) = p

Range(s) == {s[i] : i \in DOMAIN s}

\* the sequences of length n over S without repetition
RECURSIVE Arrangements(_, _)
Arrangements(S, n) ==
    IF n = 0 THEN {<<>>}
    ELSE UNION {{<<x>> \o t : t \in Arrangements(S \ {x}, n - 1)} : x \in S}

-----------------------------------------------------------------------------
(* The configuration: PingapConf, LocationConf                             *)

\* Hosts and paths of requests.  A path is its list of segments:
\* <<>> is "/", <<"api", "x">> is "/api/x".
Hosts == {"a", "b"}
Paths == {<<>>, <<"api">>, <<"api", "x">>}
Queries == {"", "x=1"}
Methods == {"GET", "HEAD", "POST", "PUT", "DELETE"}

UpstreamNames == <<"u1", "u2">>
LocationNames == {"l1", "l2", "l3"}

NoRewrite == [on |-> FALSE, from |-> <<>>, to |-> <<>>]

\* What the configuration file says of each named location, apart from its
\* weight: host pattern ("" accepts any host), path pattern (prefix or
\* exact), upstream, plugin chain and rewrite.
LocationShape(n) ==
    CASE n = "l1" -> [host |-> "", path |-> <<>>, exact |-> FALSE,
                      upstream |-> "u1", plugins |-> <<"cache">>,
                      rewrite |-> NoRewrite]
      [] n = "l2" -> [host |-> "a", path |-> <<"api">>, exact |-> FALSE,
                      upstream |-> "u1", plugins |-> <<"cache", "mock">>,
                      rewrite |-> [on |-> TRUE, from |-> <<"api">>,
                                   to |-> <<"v2">>]]
      [] OTHER    -> [host |-> "", path |-> <<"api">>, exact |-> TRUE,
                      upstream |-> "u2", plugins |-> <<"mock", "cache">>,
                      rewrite |-> [on |-> TRUE, from |-> <<"api">>,
                                   to |-> <<"bad uri">>]]

LocationConf(n, w) ==
    LET sh == LocationShape(n)
    IN  [name |-> n, weight |-> w, host |-> sh.host, path |-> sh.path,
         exact |-> sh.exact, upstream |-> sh.upstream,
         plugins |-> sh.plugins, rewrite |-> sh.rewrite]

\* LocationConf::get_weight
get_weight(lc) == lc.weight

\* The location tables a configuration can hold: up to MaxLocs locations of
\* distinct names, in the order the table is iterated, each with a weight.
LocationTables ==
    UNION {{[i \in 1..n |-> LocationConf(a[i], w[i])] :
              a \in Arrangements(LocationNames, n),
              w \in [1..n -> 1..MaxWeight]} : n \in 0..MaxLocs}

Names(ls) == {ls[i].name : i \in DOMAIN ls}

\* The location names a server entry of the configuration lists: all the
\* locations of the table, all but the first, or all and one that is not
\* in the table.
ServerLocationLists(ls) ==
    {Names(ls), Names(ls) \cup {"lx"}}
    \cup (IF ls = <<>> THEN {} ELSE {Names(ls) \ {ls[1].name}})

\* The upstream tables a configuration can hold: both upstreams, or u1
\* alone (a location that names u2 then names an upstream that is not there).
UpstreamTables == {UpstreamNames, <<"u1">>}

PingapConfsOver(tables) ==
    UNION {{[locations |-> ls, upstreams |-> us,
             servers |-> <<[name |-> "s1", locations |-> v]>>] :
               v \in ServerLocationLists(ls), us \in UpstreamTables} : ls \in tables}

PingapConfs == PingapConfsOver(LocationTables)

-----------------------------------------------------------------------------
(* impl From<PingapConf> for Vec<ServerConf>                               *)

\* One step of the stable sort: x goes after every element whose key is not
\* smaller (the key is Reverse(weight), so after every weight >= its own).
RECURSIVE InsertByKey(_, _)
InsertByKey(x, s) ==
    IF s = <<>> THEN <<x>>
    ELSE IF get_weight(Head(s)) >= get_weight(x)
         THEN <<Head(s)>> \o InsertByKey(x, Tail(s))
         ELSE <<x>> \o s

RECURSIVE SortFrom(_, _)
SortFrom(done, rest) ==
    IF rest = <<>> THEN done
    ELSE SortFrom(InsertByKey(Head(rest), done), Tail(rest))

\* a sort that leaves the table as it is iterated
sort_by_key_unsorted(ls) == ls

\* locations.sort_by_key(|b| std::cmp::Reverse(b.1.get_weight()))
sort_by_key(ls) == SortFrom(<<>>, ls)

FromPingapConf(c) ==
    LET locations == sort_by_key(c.locations)
        ServerConfOf(name, item) ==
            LET valid_locations == item.locations
                filter_locations ==
                    SelectSeq(locations, LAMBDA l : l.name \in valid_locations)
                valid_upstreams ==
                    {filter_locations[i].upstream : i \in DOMAIN filter_locations}
                filter_upstreams ==
                    SelectSeq(c.upstreams, LAMBDA u : u \in valid_upstreams)
            IN  [name |-> name, admin |-> FALSE,
                 upstreams |-> filter_upstreams,
                 locations |-> filter_locations]
    IN  [i \in DOMAIN c.servers |->
            ServerConfOf(c.servers[i].name, c.servers[i])]

\* ServerConf::default(): the ServerConf before any conversion
DefaultServerConf ==
    [name |-> "", admin |-> FALSE, upstreams |-> <<>>, locations |-> <<>>]

\* The ServerConf of the admin listener: admin set, the rest default.
AdminServerConf == [DefaultServerConf EXCEPT !.name = "admin", !.admin = TRUE]

-----------------------------------------------------------------------------
(* Server::new                                                             *)

\* Location::new: the location, bound to the upstream it names; an error
\* when no constructed upstream has that name.
LocationNew(lc, upstreams) ==
    [ok |-> lc.upstream \in Range(upstreams), lo |-> lc]

ServerNew(sc) ==
    LET in_used_upstreams == {sc.locations[i].upstream : i \in DOMAIN sc.locations}
        upstreams == SelectSeq(sc.upstreams, LAMBDA u : u \in in_used_upstreams)
        built == [i \in DOMAIN sc.locations |-> LocationNew(sc.locations[i], upstreams)]
    IN  IF \E i \in DOMAIN built : ~built[i].ok
        THEN [ok |-> FALSE, admin |-> sc.admin, locations |-> <<>>,
              upstreams |-> <<>>]
        ELSE [ok |-> TRUE, admin |-> sc.admin,
              locations |-> [i \in DOMAIN built |-> built[i].lo],
              upstreams |-> upstreams]

\* Server::run, lines 229-238: the background services, each named here by
\* the upstream it refreshes.  An upstream is a round-robin or a consistent
\* one, so exactly one of as_round_robind and as_consistent gives its load
\* balancer and each location adds one service.
run_bg_services(srv) ==
    [i \in DOMAIN srv.locations |-> srv.locations[i].upstream]

-----------------------------------------------------------------------------
(* plugin::cache::Cache                                                    *)

\* A plugin configuration string: whether Url::parse accepts it, and its
\* query pairs in order.  A value is its list of characters.
DigitValue(ch) ==
    CASE ch = "0" -> 0 [] ch = "1" -> 1 [] ch = "2" -> 2 [] ch = "3" -> 3
      [] ch = "4" -> 4 [] ch = "5" -> 5 [] ch = "6" -> 6 [] ch = "7" -> 7
      [] ch = "8" -> 8 [] ch = "9" -> 9 [] OTHER -> -1

RECURSIVE DecimalFrom(_, _)
DecimalFrom(acc, v) ==
    IF v = <<>> THEN acc ELSE DecimalFrom(acc * 10 + DigitValue(Head(v)), Tail(v))

IsDecimal(v) == v # <<>> /\ \A i \in DOMAIN v : DigitValue(v[i]) >= 0

\* value.parse::<u8>()
ParseU8(v) ==
    IF IsDecimal(v) /\ DecimalFrom(0, v) <= 255
    THEN [ok |-> TRUE, v |-> DecimalFrom(0, v)]
    ELSE [ok |-> FALSE, v |-> 0]

\* ByteSize::from_str of a plain number of bytes
ParseByteSize(v) ==
    IF IsDecimal(v) THEN [ok |-> TRUE, v |-> DecimalFrom(0, v)]
    ELSE [ok |-> FALSE, v |-> 0]

DefaultCache == [ok |-> TRUE, eviction |-> FALSE, lock |-> 0,
                 max_file_size |-> 30 * 1024]

RECURSIVE CacheQuery(_, _)
CacheQuery(c, q) ==
    IF q = <<>> THEN c
    ELSE LET key == Head(q).key
             value == Head(q).value
             next ==
                CASE key = "lock" ->
                        IF ParseU8(value).ok
                        THEN [c EXCEPT !.lock = ParseU8(value).v] ELSE c
                  [] key = "max_file_size" ->
                        IF ParseByteSize(value).ok
                        THEN [c EXCEPT !.max_file_size = ParseByteSize(value).v]
                        ELSE c
                  [] key = "eviction" -> [c EXCEPT !.eviction = TRUE]
                  [] OTHER -> c
         IN  CacheQuery(next, Tail(q))

\* Cache::new failing on a lock value that is no u8
CacheNewStrict(value) ==
    IF ~value.valid
       \/ \E i \in DOMAIN value.query :
             value.query[i].key = "lock" /\ ~ParseU8(value.query[i].value).ok
    THEN [DefaultCache EXCEPT !.ok = FALSE]
    ELSE CacheQuery(DefaultCache, value.query)

\* Cache::new
CacheNew(value) ==
    IF ~value.valid THEN [DefaultCache EXCEPT !.ok = FALSE]
    ELSE CacheQuery(DefaultCache, value.query)

\* session.cache before any plugin touched it
NoCache == [enabled |-> FALSE, storage |-> "", eviction |-> FALSE,
            predictor |-> FALSE, lock |-> 0, max_file_size |-> 0]

\* Cache::handle with the method check left out
CacheHandleAnyMethod(plugin, cache, method) ==
    [done |-> FALSE, err |-> FALSE,
     cache |-> [enabled |-> TRUE, storage |-> "MEM_BACKEND",
                eviction |-> ~plugin.eviction, predictor |-> TRUE,
                lock |-> IF plugin.lock \in {1, 2, 3} THEN plugin.lock ELSE 0,
                max_file_size |-> IF plugin.max_file_size > 0
                                  THEN plugin.max_file_size ELSE 0]]

\* Cache::handle with every lock value above 3 taken for the longest lock
CacheHandleLongestLock(plugin, cache, method) ==
    IF method \notin {"GET", "HEAD"}
    THEN [done |-> FALSE, err |-> FALSE, cache |-> cache]
    ELSE [done |-> FALSE, err |-> FALSE,
          cache |-> [enabled |-> TRUE, storage |-> "MEM_BACKEND",
                     eviction |-> ~plugin.eviction, predictor |-> TRUE,
                     lock |-> IF plugin.lock > 3 THEN 3 ELSE plugin.lock,
                     max_file_size |-> IF plugin.max_file_size > 0
                                       THEN plugin.max_file_size ELSE 0]]

\* Cache::handle: the value returned (Ok(done)) and session.cache after it.
\* cache.lock is the duration in seconds of the lock wired, 0 for none;
\* cache.eviction tells whether EVICTION_MANAGER was wired.
CacheHandle(plugin, cache, method) ==
    IF method \notin {"GET", "HEAD"}
    THEN [done |-> FALSE, err |-> FALSE, cache |-> cache]
    ELSE LET eviction == IF plugin.eviction THEN FALSE ELSE TRUE
             lock == CASE plugin.lock = 1 -> 1
                       [] plugin.lock = 2 -> 2
                       [] plugin.lock = 3 -> 3
                       [] OTHER -> 0
             enabled == [enabled |-> TRUE, storage |-> "MEM_BACKEND",
                         eviction |-> eviction, predictor |-> TRUE,
                         lock |-> lock, max_file_size |-> 0]
         IN  [done |-> FALSE, err |-> FALSE,
              cache |-> IF plugin.max_file_size > 0
                        THEN [enabled EXCEPT !.max_file_size = plugin.max_file_size]
                        ELSE enabled]

-----------------------------------------------------------------------------
(* Errors                                                                  *)

NoError == [etype |-> "", status |-> 0, esource |-> ""]

Error(etype, esource) == [etype |-> etype, status |-> 0, esource |-> esource]

\* util::new_internal_error(status, message)
new_internal_error(status) ==
    [etype |-> "HTTPStatus", status |-> status, esource |-> "Internal"]

ErrorSources == {"Upstream", "Downstream", "Internal", "Unset"}
ErrorTypes == {"ConnectTimedout", "ConnectRefused", "ReadError", "WriteError",
               "ConnectionClosed", "InvalidHTTPHeader", "InternalError"}
\* HTTPStatus carries a u16: statuses in use, and two that StatusCode does
\* not take (it takes 100..999)
ExplicitStatuses == {400, 404, 429, 499, 500, 502, 503, 99, 1000}

\* every error the failure handler can be given
AllErrors ==
    {Error(t, s) : t \in ErrorTypes, s \in ErrorSources}
    \cup {[etype |-> "HTTPStatus", status |-> c, esource |-> s] :
            c \in ExplicitStatuses, s \in ErrorSources}

-----------------------------------------------------------------------------
(* proxy::Location                                                         *)

\* Location::matched: the host pattern accepts the host ("" accepts any)
\* and the path pattern accepts the path (exactly, or as a prefix).
matched(lo, host, path) ==
    /\ (lo.host = "" \/ lo.host = host)
    /\ IF lo.exact THEN lo.path = path ELSE IsPrefix(lo.path, path)

\* Location::rewrite: None without a rewrite rule; else the path with the
\* rule applied (unchanged where the rule does not apply).
rewrite(lo, path) ==
    IF ~lo.rewrite.on THEN [some |-> FALSE, path |-> path]
    ELSE IF IsPrefix(lo.rewrite.from, path)
         THEN [some |-> TRUE,
               path |-> lo.rewrite.to
                        \o SubSeq(path, Len(lo.rewrite.from) + 1, Len(path))]
         ELSE [some |-> TRUE, path |-> path]

\* new_path.parse::<http::Uri>(): a segment with a space in it is no URI
UriParses(path) == \A i \in DOMAIN path : path[i] # "bad uri"

\* the query is not appended again
FormatUriNoQuery(path, query) == path

\* format!("{new_path}?{query}") when the URI has a query, else new_path:
\* the string as its list of pieces, the path's segments, then "?" and the
\* query
FormatUri(path, query) ==
    IF query = "" THEN path ELSE path \o <<"?", query>>

\* new_path.parse::<http::Uri>(): the path is what stands before the first
\* "?", the query what stands after it
ParseUri(pieces) ==
    LET Q == {i \in DOMAIN pieces : pieces[i] = "?"}
    IN  IF ~UriParses(pieces)
        THEN [ok |-> FALSE, path |-> <<>>, query |-> ""]
        ELSE IF Q = {} THEN [ok |-> TRUE, path |-> pieces, query |-> ""]
        ELSE LET i == CHOOSE i \in Q : \A j \in Q : i <= j
             IN  [ok |-> TRUE, path |-> SubSeq(pieces, 1, i - 1),
                  query |-> IF i < Len(pieces) THEN pieces[i + 1] ELSE ""]

\* the URI is set whether or not the new one parses
rewrite_uri_unchecked(sess, new_path) ==
    IF ~new_path.some THEN sess
    ELSE [sess EXCEPT !.path = new_path.path]

\* Server::request_filter, lines 325-331: the session after the rewrite
rewrite_uri(sess, new_path) ==
    IF ~new_path.some THEN sess
    ELSE LET uri == ParseUri(FormatUri(new_path.path, sess.query))
         IN  IF uri.ok
             THEN [sess EXCEPT !.path = uri.path, !.query = uri.query]
             ELSE sess

\* What a plugin that is not the cache plugin can answer.
PluginOutcomes == {"continue", "done", "error"}

\* the error a plugin raises unless the run says otherwise
PluginError == Error("InternalError", "Internal")

\* Location::exec_proxy_plugins: the chain in order; it stops at the first
\* plugin that answers done (Ok(true)) or raises an error.  `other` is the
\* answer of the plugins that are not the cache plugin.
RECURSIVE exec_proxy_plugins(_, _, _, _, _)
exec_proxy_plugins(plugins, plugin, cache, method, other) ==
    IF plugins = <<>> THEN [done |-> FALSE, err |-> FALSE, cache |-> cache]
    ELSE LET r == IF Head(plugins) = "cache"
                  THEN CacheHandle(plugin, cache, method)
                  ELSE [done |-> other = "done", err |-> other = "error",
                        cache |-> cache]
         IN  IF r.done \/ r.err THEN r
             ELSE exec_proxy_plugins(Tail(plugins), plugin, r.cache, method, other)

-----------------------------------------------------------------------------
(* impl ProxyHttp for Server: the handlers                                 *)

\* State::default()
NewCtx == [processing |-> 0, accepted |-> 0, location_index |-> NoIndex,
           status |-> NoStatus, response_body_size |-> 0,
           upstream_address |-> "", reused |-> FALSE]

NoRequest == [host |-> "", path |-> <<>>, query |-> "", method |-> ""]

\* the session of a request: its URI, its cache context, whether keep-alive
\* is still on, the status of the response header written downstream
\* (NoStatus: none yet), the bytes of error body written, whether the
\* request sent upstream carries x-forwarded-for, how the two writes of the
\* error response ended ("none": not tried), and whether keep-alive was on
\* or off when they were tried
NewSession(in) ==
    [path |-> in.path, query |-> in.query, cache |-> NoCache,
     keepalive |-> TRUE, response_written |-> NoStatus, body_written |-> 0,
     forwarded |-> FALSE, header_write |-> "none", body_write |-> "none",
     keepalive_at_write |-> "none"]

\* the counter is stored, not added to
request_filter_processing_store(p) == 1

\* self.processing.fetch_add(1): the counter afterwards
request_filter_processing(p) == p + 1

\* the counter is read and left as it is
request_filter_accepted_kept(a) == a

\* self.accepted.fetch_add(1): the counter afterwards
request_filter_accepted(a) == a + 1

\* logging leaves the counter as it is
logging_processing_kept(p) == p

\* self.processing.fetch_add(-1): the counter afterwards
logging_processing(p) == p - 1

\* the search takes the last match
find_matched_last(locations, host, path) ==
    LET M == {i \in DOMAIN locations : matched(locations[i], host, path)}
    IN  IF M = {} THEN NoIndex
        ELSE (CHOOSE i \in M : \A j \in M : j <= i) - 1

\* the search falls back on the first location when nothing matches
find_matched_or_first(locations, host, path) ==
    LET M == {i \in DOMAIN locations : matched(locations[i], host, path)}
    IN  IF M = {} THEN (IF locations = <<>> THEN NoIndex ELSE 0)
        ELSE (CHOOSE i \in M : \A j \in M : i <= j) - 1

\* self.locations.iter().enumerate().find(|(_, item)| item.matched(host, path))
\* as the index counted from 0, NoIndex when nothing matches
find_matched(locations, host, path) ==
    LET M == {i \in DOMAIN locations : matched(locations[i], host, path)}
    IN  IF M = {} THEN NoIndex
        ELSE (CHOOSE i \in M : \A j \in M : i <= j) - 1

\* What the admin plugin can answer: it is not registered, Ok(true),
\* Ok(false), or an error.
AdminOutcomes == {"none", "done", "not_done", "error"}

\* serve_admin taking the plugin's Ok(false) for Ok(true)
serve_admin_any_answer(outcome, plugin_error) ==
    IF outcome = "error" THEN plugin_error ELSE NoError

\* Server::serve_admin: "" for Ok(()), else the error
serve_admin(outcome, plugin_error) ==
    CASE outcome = "done" -> NoError
      [] outcome = "not_done" -> new_internal_error(500)
      [] outcome = "error" -> plugin_error
      [] OTHER -> NoError

\* the session after a plugin answered the request itself (it wrote a
\* response with status 200)
PluginResponded(sess) == [sess EXCEPT !.response_written = 200]

\* the answer of the plugin chain is taken for Ok(false) unless it is an error
after_plugins_continues(done) ==
    IF done.err THEN "err" ELSE "continue"

\* Server::request_filter, lines 334-342: what it returns after the plugin
\* chain answered
after_plugins(done) ==
    IF done.err THEN "err" ELSE IF done.done THEN "done" ELSE "continue"

\* Server::request_filter after the two counter updates: what it returns
\* ("done" for Ok(true), "continue" for Ok(false), "err"), the error, and
\* the context and session it leaves.
request_filter(srv, plugin, in, cx, sess, admin, other, plugin_error) ==
    IF srv.admin
    THEN LET e == serve_admin(admin, plugin_error)
         IN  IF e # NoError
             THEN [ret |-> "err", err |-> e, chain |-> "", ctx |-> cx,
                   session |-> sess]
             ELSE [ret |-> "done", err |-> NoError, chain |-> "", ctx |-> cx,
                   session |-> IF admin = "done" THEN PluginResponded(sess)
                               ELSE sess]
    ELSE LET path == sess.path
             host == in.host
             location_index == find_matched(srv.locations, host, path)
         IN  IF location_index = NoIndex
             THEN [ret |-> "err", err |-> new_internal_error(500),
                   chain |-> "", ctx |-> cx, session |-> sess]
             ELSE LET lo == srv.locations[location_index + 1]
                      new_path == rewrite(lo, path)
                      sess1 == rewrite_uri(sess, new_path)
                      cx1 == [cx EXCEPT !.location_index = location_index]
                      done == exec_proxy_plugins(lo.plugins, plugin, sess1.cache,
                                                 in.method, other)
                      sess2 == [sess1 EXCEPT !.cache = done.cache]
                      ret == after_plugins(done)
                  IN  [ret |-> ret,
                       err |-> IF ret = "err" THEN plugin_error ELSE NoError,
                       chain |-> CASE done.err -> "plugins_error"
                                   [] done.done -> "plugins_done"
                                   [] OTHER -> "plugins_continue",
                       ctx |-> cx1,
                       session |-> IF ret = "done" THEN PluginResponded(sess2)
                                   ELSE sess2]

\* the index taken one too far
upstream_peer_index_next(cx) == cx.location_index + 1

\* the peer is always taken from the first location
upstream_peer_index_first(cx) == 0

\* ctx.location_index.unwrap_or_default(), counted from 0
upstream_peer_index(cx) ==
    IF cx.location_index = NoIndex THEN 0 ELSE cx.location_index

\* the error raised with the status of a bad gateway
upstream_peer_error_502 == new_internal_error(502)

\* the error upstream_peer raises when the upstream has no peer to give
upstream_peer_error == new_internal_error(503)

\* the address of the peer an upstream gives
PeerAddress(upstream) == upstream

\* StatusCode::from_u16(code).unwrap_or(StatusCode::INTERNAL_SERVER_ERROR)
StatusFromU16(c) == IF c >= 100 /\ c < 1000 THEN c ELSE 500

\* the classification with the upstream and downstream defaults exchanged
fail_to_proxy_code_swapped(e) ==
    IF e.etype = "HTTPStatus" THEN e.status
    ELSE CASE e.esource = "Downstream" -> 502
           [] e.esource = "Upstream" ->
                CASE e.etype \in {"WriteError", "ReadError"} -> 500
                  [] e.etype = "ConnectionClosed" -> 499
                  [] OTHER -> 400
           [] OTHER -> 500

\* Server::fail_to_proxy: the code it computes from the error
fail_to_proxy_code(e) ==
    IF e.etype = "HTTPStatus" THEN e.status
    ELSE CASE e.esource = "Upstream" -> 502
           [] e.esource = "Downstream" ->
                CASE e.etype \in {"WriteError", "ReadError"} -> 500
                  [] e.etype = "ConnectionClosed" -> 499
                  [] OTHER -> 400
           [] OTHER -> 500

\* keep-alive is left as it is
set_keepalive_kept(sess) == sess

\* server_session.set_keepalive(None)
set_keepalive(sess) == [sess EXCEPT !.keepalive = FALSE]

\* Server::fail_to_proxy, lines 489-496: the header of the error response
\* and then its body are written downstream; a write that fails is logged
\* or dropped.  A header already written is not replaced.
write_error_response(sess, c, size, header_ok, body_ok) ==
    [sess EXCEPT
        !.keepalive_at_write = IF sess.keepalive THEN "on" ELSE "off",
        !.response_written = IF header_ok /\ @ = NoStatus THEN c ELSE @,
        !.header_write = IF header_ok THEN "ok" ELSE "failed",
        !.body_written = IF body_ok THEN size ELSE 0,
        !.body_write = IF body_ok THEN "ok" ELSE "failed"]

\* self.error_template with {{version}} and {{content}} replaced: the body
\* as a list of pieces, one per piece of the template, the error's text
\* being as long as its type and source say
ErrorTemplate == <<"<html>", "{{version}}", "{{content}}", "</html>">>

ErrorText(e) ==
    IF e.etype = "HTTPStatus" THEN <<"HTTPStatus", "context">> ELSE <<e.etype>>

RECURSIVE Replace(_, _, _)
Replace(tpl, key, value) ==
    IF tpl = <<>> THEN <<>>
    ELSE (IF Head(tpl) = key THEN value ELSE <<Head(tpl)>>)
         \o Replace(Tail(tpl), key, value)

ErrorBody(e) ==
    Replace(Replace(ErrorTemplate, "{{version}}", <<"0.1.0">>),
            "{{content}}", ErrorText(e))

-----------------------------------------------------------------------------
(* The pipeline: one action per handler call of the framework              *)

\* one State and one session shared by all the requests
SetShared(f, r, v) == [q \in DOMAIN f |-> v]

\* the State (new_ctx gives each request its own) or the session of
\* request r becomes v
Set(f, r, v) == [f EXCEPT ![r] = v]

Ran(r, name) == trace' = [trace EXCEPT ![r] = Append(@, name)]

\* request_filter, line 302: the request is accepted; new_ctx gave it a
\* fresh State and the session holds the request as it arrived.  Requests
\* are numbered in the order in which they get here.
RequestFilterEnter(r) ==
    /\ stage = "running"
    /\ pc[r] = "idle"
    /\ inputs[r] # NoRequest
    /\ \A q \in Reqs : q < r => pc[q] # "idle"
    /\ processing' = request_filter_processing(processing)
    /\ ctx' = Set(ctx, r, [NewCtx EXCEPT !.processing = processing])
    /\ session' = Set(session, r, NewSession(inputs[r]))
    /\ pc' = Set(pc, r, "request_filter")
    /\ Ran(r, "request_filter")
    /\ UNCHANGED <<stage, conf, serverConf, server, cache_plugin, cache_value,
                   bg_services,
                   env,
                   accepted, inputs, err, code, result, logged>>

\* request_filter, lines 303-342
RequestFilter(r) ==
    /\ pc[r] = "request_filter"
    /\ \E admin \in AdminOutcomes, other \in PluginOutcomes,
          plugin_error \in env.plugin_errors :
         LET out == request_filter(server, cache_plugin, inputs[r],
                                   [ctx[r] EXCEPT !.accepted = accepted],
                                   session[r], admin, other, plugin_error)
         IN  /\ accepted' = request_filter_accepted(accepted)
             /\ ctx' = Set(ctx, r, out.ctx)
             /\ session' = Set(session, r, out.session)
             /\ err' = Set(err, r, out.err)
             /\ pc' = Set(pc, r, CASE out.ret = "err" -> "fail_to_proxy"
                                   [] out.ret = "done" -> "logging"
                                   [] OTHER -> "upstream_peer")
             /\ result' = Set(result, r, IF out.ret = "done" THEN "Completed"
                                         ELSE result[r])
             /\ trace' = Set(trace, r,
                    trace[r]
                    \o (IF server.admin THEN <<"serve_admin", admin>>
                        ELSE IF out.chain # ""
                             THEN <<"exec_proxy_plugins", out.chain>>
                             ELSE <<>>))
    /\ UNCHANGED <<stage, conf, serverConf, server, cache_plugin, cache_value,
                   bg_services,
                   env,
                   processing, inputs, code, logged>>

\* upstream_peer: indexing self.locations out of range panics, and the task
\* of the request ends there.  `healthy` is what the upstream's health
\* state, which its background service keeps, says when it is read:
\* new_http_peer gives a peer exactly when some peer is healthy.
UpstreamPeer(r) ==
    /\ pc[r] = "upstream_peer"
    /\ \E healthy \in BOOLEAN :
         LET index == upstream_peer_index(ctx[r])
         IN  IF index + 1 \notin DOMAIN server.locations
             THEN /\ pc' = Set(pc, r, "panicked")
                  /\ err' = err
             ELSE IF healthy
                  THEN /\ pc' = Set(pc, r, "connect")
                       /\ err' = err
                  ELSE /\ pc' = Set(pc, r, "fail_to_proxy")
                       /\ err' = Set(err, r, upstream_peer_error)
    /\ Ran(r, "upstream_peer")
    /\ UNCHANGED <<stage, conf, serverConf, server, cache_plugin, cache_value,
                   bg_services,
                   env,
                   accepted, processing, inputs, ctx, session, code, result,
                   logged>>

\* the framework connects to the peer; connected_to_upstream on success
ConnectedToUpstream(r) ==
    /\ pc[r] = "connect"
    /\ \E reused \in env.reused :
         ctx' = Set(ctx, r, [ctx[r] EXCEPT
                   !.reused = reused,
                   !.upstream_address =
                       PeerAddress(server.locations[upstream_peer_index(ctx[r]) + 1].upstream)])
    /\ pc' = Set(pc, r, "upstream_request_filter")
    /\ Ran(r, "connected_to_upstream")
    /\ UNCHANGED <<stage, conf, serverConf, server, cache_plugin, cache_value,
                   bg_services,
                   env,
                   accepted, processing, inputs, session, err, code, result,
                   logged>>

\* the connection to the peer fails
ConnectFails(r) ==
    /\ pc[r] = "connect"
    /\ err' = Set(err, r, Error("ConnectTimedout", "Upstream"))
    /\ pc' = Set(pc, r, "fail_to_proxy")
    /\ Ran(r, "connect_failed")
    /\ UNCHANGED <<stage, conf, serverConf, server, cache_plugin, cache_value,
                   bg_services,
                   env,
                   accepted, processing, inputs, ctx, session, code, result,
                   logged>>

\* upstream_request_filter: x-forwarded-for and the location's headers
UpstreamRequestFilter(r) ==
    /\ pc[r] = "upstream_request_filter"
    /\ session' = Set(session, r, [session[r] EXCEPT !.forwarded = TRUE])
    /\ pc' = Set(pc, r, "upstream_response_filter")
    /\ Ran(r, "upstream_request_filter")
    /\ UNCHANGED <<stage, conf, serverConf, server, cache_plugin, cache_value,
                   bg_services,
                   env,
                   accepted, processing, inputs, ctx, err, code, result,
                   logged>>

\* the status of each response header replaces the one recorded
upstream_response_filter_last(c, status) == [c EXCEPT !.status = status]

\* upstream_response_filter on the State: the status is recorded when none
\* is; the headers the location inserts are not modelled
upstream_response_filter(c, status) ==
    IF c.status = NoStatus THEN [c EXCEPT !.status = status] ELSE c

\* upstream_response_filter; the framework then writes the header downstream
UpstreamResponseFilter(r) ==
    /\ pc[r] = "upstream_response_filter"
    /\ \E status \in env.statuses :
         /\ ctx' = Set(ctx, r, upstream_response_filter(ctx[r], status))
         /\ session' = Set(session, r,
                           [session[r] EXCEPT !.response_written = status])
    /\ pc' = Set(pc, r, "upstream_response_body_filter")
    /\ Ran(r, "upstream_response_filter")
    /\ UNCHANGED <<stage, conf, serverConf, server, cache_plugin, cache_value,
                   bg_services,
                   env,
                   accepted, processing, inputs, err, code, result, logged>>

\* the statuses of the interim responses an upstream sends before its
\* response
InterimStatuses == {100, 103}

\* The upstream sends an interim response before its response: the
\* framework hands every response header it reads to
\* upstream_response_filter, so the handler runs for the interim header too
\* and the request goes on waiting for the next header.
UpstreamInterimResponse(r) ==
    /\ pc[r] = "upstream_response_filter"
    /\ Cardinality({i \in DOMAIN trace[r] :
                       trace[r][i] = "upstream_response_filter"}) < MaxInterim
    /\ \E status \in InterimStatuses :
         /\ ctx' = Set(ctx, r, upstream_response_filter(ctx[r], status))
         /\ session' = Set(session, r,
                           [session[r] EXCEPT !.response_written = status])
    /\ Ran(r, "upstream_response_filter")
    /\ UNCHANGED <<stage, conf, serverConf, server, cache_plugin, cache_value,
                   bg_services,
                   env,
                   accepted, processing, inputs, pc, err, code, result,
                   logged>>

\* reading the upstream's response fails
UpstreamReadFails(r) ==
    /\ pc[r] = "upstream_response_filter"
    /\ err' = Set(err, r, Error("ReadError", "Upstream"))
    /\ pc' = Set(pc, r, "fail_to_proxy")
    /\ Ran(r, "read_failed")
    /\ UNCHANGED <<stage, conf, serverConf, server, cache_plugin, cache_value,
                   bg_services,
                   env,
                   accepted, processing, inputs, ctx, session, code, result,
                   logged>>

\* upstream_response_body_filter for one chunk of one byte
UpstreamResponseBodyFilter(r) ==
    /\ pc[r] = "upstream_response_body_filter"
    /\ ctx[r].response_body_size < MaxChunks
    /\ ctx' = Set(ctx, r, [ctx[r] EXCEPT !.response_body_size = @ + 1])
    /\ Ran(r, "upstream_response_body_filter")
    /\ UNCHANGED <<stage, conf, serverConf, server, cache_plugin, cache_value,
                   bg_services,
                   env,
                   accepted, processing, inputs, pc, session, err, code,
                   result, logged>>

\* upstream_response_body_filter at the end of the stream, with no body
UpstreamResponseEnd(r) ==
    /\ pc[r] = "upstream_response_body_filter"
    /\ pc' = Set(pc, r, "logging")
    /\ result' = Set(result, r, "Completed")
    /\ Ran(r, "upstream_response_body_filter")
    /\ UNCHANGED <<stage, conf, serverConf, server, cache_plugin, cache_value,
                   bg_services,
                   env,
                   accepted, processing, inputs, ctx, session, err, code,
                   logged>>

\* the client goes away, or writing to it fails, while the body is streamed
DownstreamFails(r) ==
    /\ pc[r] = "upstream_response_body_filter"
    /\ \E etype \in env.downstream_errors :
         err' = Set(err, r, Error(etype, "Downstream"))
    /\ pc' = Set(pc, r, "fail_to_proxy")
    /\ Ran(r, "downstream_failed")
    /\ UNCHANGED <<stage, conf, serverConf, server, cache_plugin, cache_value,
                   bg_services,
                   env,
                   accepted, processing, inputs, ctx, session, code, result,
                   logged>>

\* fail_to_proxy; header_ok and body_ok say whether the two writes to the
\* downstream succeed
FailToProxy(r) ==
    /\ pc[r] = "fail_to_proxy"
    /\ \E header_ok \in env.writes, body_ok \in env.writes :
         LET c == fail_to_proxy_code(err[r])
             buf == ErrorBody(err[r])
         IN  /\ ctx' = Set(ctx, r, [ctx[r] EXCEPT
                                      !.status = StatusFromU16(c),
                                      !.response_body_size = Len(buf)])
             /\ session' = Set(session, r,
                    write_error_response(set_keepalive(session[r]), c,
                                         Len(buf), header_ok, body_ok))
             /\ code' = Set(code, r, c)
    /\ pc' = Set(pc, r, "logging")
    /\ result' = Set(result, r, "Failed")
    /\ Ran(r, "fail_to_proxy")
    /\ UNCHANGED <<stage, conf, serverConf, server, cache_plugin, cache_value,
                   bg_services,
                   env,
                   accepted, processing, inputs, err, logged>>

\* logging
Logging(r) ==
    /\ pc[r] = "logging"
    /\ processing' = logging_processing(processing)
    /\ ctx' = Set(ctx, r,
                  IF ctx[r].status = NoStatus
                     /\ session[r].response_written # NoStatus
                  THEN [ctx[r] EXCEPT !.status = session[r].response_written]
                  ELSE ctx[r])
    /\ logged' = Set(logged, r, logged[r] + 1)
    /\ pc' = Set(pc, r, "logged")
    /\ Ran(r, "logging")
    /\ UNCHANGED <<stage, conf, serverConf, server, cache_plugin, cache_value,
                   bg_services,
                   env,
                   accepted, inputs, session, err, code, result>>

\* the request is over: its State and its session are dropped
Finish(r) ==
    /\ pc[r] = "logged"
    /\ pc' = Set(pc, r, "done")
    /\ ctx' = Set(ctx, r, NewCtx)
    /\ session' = Set(session, r, NewSession(NoRequest))
    /\ err' = Set(err, r, NoError)
    /\ code' = Set(code, r, 0)
    /\ trace' = Set(trace, r, <<>>)
    /\ UNCHANGED <<stage, conf, serverConf, server, cache_plugin, cache_value,
                   bg_services,
                   env,
                   accepted, processing, inputs, result, logged>>

Step(r) ==
    \/ RequestFilterEnter(r)
    \/ RequestFilter(r)
    \/ UpstreamPeer(r)
    \/ ConnectedToUpstream(r)
    \/ ConnectFails(r)
    \/ UpstreamRequestFilter(r)
    \/ UpstreamResponseFilter(r)
    \/ UpstreamReadFails(r)
    \/ UpstreamResponseBodyFilter(r)
    \/ UpstreamResponseEnd(r)
    \/ DownstreamFails(r)
    \/ FailToProxy(r)
    \/ Logging(r)
    \/ Finish(r)

Next == \E r \in Reqs : Step(r)

-----------------------------------------------------------------------------
(* Initial states                                                          *)

\* the cache plugin of the running process
CachePluginValue ==
    [valid |-> TRUE, query |-> <<[key |-> "lock", value |-> <<"2">>]>>]

Requests ==
    {[host |-> h, path |-> p, query |-> q, method |-> m] :
        h \in Hosts, p \in Paths, q \in Queries, m \in {"GET", "POST"}}

\* the configuration once it has been converted, and the ServerConf once
\* Server::new has taken it: both are moved into the conversion
NoConf == [locations |-> <<>>, upstreams |-> <<>>, servers |-> <<>>]

\* What the world around the server does in a run: whether a connection to
\* a peer is a reused one, the status a peer answers with, the error that
\* ends a response being streamed to the client, whether a write of the
\* error response to the client succeeds, and the error a plugin raises.
AnyEnv == [reused |-> BOOLEAN, statuses |-> {200, 404},
           downstream_errors |-> {"ConnectionClosed", "WriteError"},
           writes |-> BOOLEAN, plugin_errors |-> {PluginError}]

\* A run where connections are fresh, peers answer 200, a client that goes
\* away closes its connection, and the error response can be written.
QuietEnv == [reused |-> {FALSE}, statuses |-> {200},
             downstream_errors |-> {"ConnectionClosed"},
             writes |-> {TRUE}, plugin_errors |-> {PluginError}]

\* A running server built from ServerConf sc, the requests ins, in world e.
RunningWith(sc, ins, e, value) ==
    /\ stage = "running"
    /\ conf = NoConf
    /\ serverConf = DefaultServerConf
    /\ ServerNew(sc).ok
    /\ server = ServerNew(sc)
    /\ cache_plugin = CacheNew(value)
    /\ cache_value = value
    /\ bg_services = run_bg_services(ServerNew(sc))
    /\ env = e
    /\ accepted = 0
    /\ processing = 0
    /\ inputs = ins
    /\ pc = [r \in Reqs |-> "idle"]
    /\ ctx = [r \in Reqs |-> NewCtx]
    /\ session = [r \in Reqs |-> NewSession(NoRequest)]
    /\ err = [r \in Reqs |-> NoError]
    /\ code = [r \in Reqs |-> 0]
    /\ result = [r \in Reqs |-> ""]
    /\ trace = [r \in Reqs |-> <<>>]
    /\ logged = [r \in Reqs |-> 0]

Running(sc, ins, e) == RunningWith(sc, ins, e, CachePluginValue)

\* the ServerConfs of the process: those converted from its PingapConf, and
\* the one of the admin listener
ServerConfsOf(c) == Range(FromPingapConf(c)) \cup {AdminServerConf}

\* One request to a server of any configuration.
InitOne ==
    \E c \in PingapConfs : \E sc \in ServerConfsOf(c) : \E in \in Requests :
        Running(sc, [r \in Reqs |-> IF r = 1 THEN in ELSE NoRequest], AnyEnv)

SpecOne == InitOne /\ [][Next]_vars

\* A burst of MaxReq requests to one server: the admin listener, a server
\* with the one location l3, or a server left without a location; each
\* request is for /api, which l3 matches, or for /, which it does not.
BurstConf ==
    [locations |-> <<LocationConf("l3", 1)>>, upstreams |-> UpstreamNames,
     servers |-> <<[name |-> "s1", locations |-> {"l3"}],
                   [name |-> "s2", locations |-> {"lx"}]>>]

BurstRequests ==
    {[host |-> "a", path |-> p, query |-> "", method |-> "GET"] :
        p \in {<<>>, <<"api">>}}

Init ==
    \E sc \in ServerConfsOf(BurstConf) : \E ins \in [Reqs -> BurstRequests] :
        Running(sc, ins, QuietEnv)

Spec == Init /\ [][Next]_vars

\* One request to one of the servers of the burst, in any world.  The
\* framework runs each request as a task of its own and drives it from one
\* phase to the next, so a request that can take a step sooner or later
\* takes one; no step of a request waits for another request.
InitFair ==
    \E sc \in ServerConfsOf(BurstConf) : \E in \in BurstRequests :
        Running(sc, [r \in Reqs |-> IF r = 1 THEN in ELSE NoRequest], AnyEnv)

FairSpec == InitFair /\ [][Next]_vars /\ \A r \in Reqs : WF_vars(Step(r))

\* One request to one of the servers of the burst, in any world, to an
\* upstream that may send interim responses.
NextStatus == \E r \in Reqs : Step(r) \/ UpstreamInterimResponse(r)

SpecStatus == InitFair /\ [][NextStatus]_vars

-----------------------------------------------------------------------------
(* The failure handler on every error: one request for /api to the server  *)
(* with the location l3, whose first plugin raises any error.              *)

AnyErrorEnv == [AnyEnv EXCEPT !.plugin_errors = AllErrors]

InitFail ==
    Running(FromPingapConf(BurstConf)[1],
            [r \in Reqs |-> IF r = 1
                            THEN [host |-> "a", path |-> <<"api">>,
                                  query |-> "", method |-> "GET"]
                            ELSE NoRequest],
            AnyErrorEnv)

SpecFail == InitFail /\ [][Next]_vars

-----------------------------------------------------------------------------
(* The cache plugin: one request of any method for /api to a server whose  *)
(* one location starts its chain with the cache plugin, the plugin being   *)
(* built from any configuration string.                                    *)

QueryKeys == {"lock", "max_file_size", "eviction", "other"}

\* the values tried for each key: for lock a number of seconds with a lock,
\* without one, beyond u8, and no number; for max_file_size none, a size,
\* and no size; eviction with and without a value
QueryValuesOf(key) ==
    CASE key = "lock" -> {<<"0">>, <<"1">>, <<"2">>, <<"3">>, <<"4">>,
                          <<"2", "5", "6">>, <<"x">>}
      [] key = "max_file_size" -> {<<"0">>, <<"2", "5", "6">>, <<"x">>}
      [] key = "eviction" -> {<<>>, <<"0">>}
      [] OTHER -> {<<"1">>}

QueryPairs ==
    UNION {{[key |-> k, value |-> v] : v \in QueryValuesOf(k)} : k \in QueryKeys}

RECURSIVE QueriesOfLen(_)
QueriesOfLen(n) ==
    IF n = 0 THEN {<<>>}
    ELSE {<<p>> \o q : p \in QueryPairs, q \in QueriesOfLen(n - 1)}

CacheValues ==
    {[valid |-> TRUE, query |-> q] : q \in UNION {QueriesOfLen(n) : n \in 0..MaxQuery}}
    \cup {[valid |-> FALSE, query |-> <<>>]}

CacheConfs ==
    {[locations |-> <<LocationConf(n, 1)>>, upstreams |-> UpstreamNames,
      servers |-> <<[name |-> "s1", locations |-> {n}]>>] : n \in {"l1", "l2"}}

InitCache ==
    \E c \in CacheConfs : \E m \in Methods : \E value \in CacheValues :
        /\ CacheNew(value).ok
        /\ RunningWith(FromPingapConf(c)[1],
                       [r \in Reqs |-> IF r = 1
                                       THEN [host |-> "a", path |-> <<"api">>,
                                             query |-> "", method |-> m]
                                       ELSE NoRequest],
                       QuietEnv, value)

\* the plugin chain runs inside request_filter: the run is followed up to
\* the end of that handler
NextCache == \E r \in Reqs : RequestFilterEnter(r) \/ RequestFilter(r)

SpecCache == InitCache /\ [][NextCache]_vars

-----------------------------------------------------------------------------
(* Cache::new on any configuration string                                  *)

\* no plugin has been built yet
NoPlugin == [DefaultCache EXCEPT !.ok = FALSE]

\* Cache::new: the plugin is built from the configuration string, or the
\* construction fails
NewCache ==
    /\ stage = "plugin_conf"
    /\ cache_plugin' = CacheNew(cache_value)
    /\ stage' = IF CacheNew(cache_value).ok THEN "plugin" ELSE "plugin_error"
    /\ UNCHANGED <<conf, serverConf, server, cache_value, bg_services, env, inputs>>
    /\ UNCHANGED pipeline_vars

InitPlugin ==
    /\ stage = "plugin_conf"
    /\ cache_value \in CacheValues
    /\ bg_services = <<>>
    /\ cache_plugin = NoPlugin
    /\ conf = NoConf
    /\ serverConf = DefaultServerConf
    /\ server = [ok |-> FALSE, admin |-> FALSE, locations |-> <<>>,
                 upstreams |-> <<>>]
    /\ env = QuietEnv
    /\ accepted = 0
    /\ processing = 0
    /\ inputs = [r \in Reqs |-> NoRequest]
    /\ pc = [r \in Reqs |-> "idle"]
    /\ ctx = [r \in Reqs |-> NewCtx]
    /\ session = [r \in Reqs |-> NewSession(NoRequest)]
    /\ err = [r \in Reqs |-> NoError]
    /\ code = [r \in Reqs |-> 0]
    /\ result = [r \in Reqs |-> ""]
    /\ trace = [r \in Reqs |-> <<>>]
    /\ logged = [r \in Reqs |-> 0]

SpecPlugin == InitPlugin /\ [][NewCache]_vars

-----------------------------------------------------------------------------
(* Construction: from the configuration to the running server              *)

NoServer == [ok |-> FALSE, admin |-> FALSE, locations |-> <<>>,
             upstreams |-> <<>>]

construction_vars == <<stage, conf, serverConf, server>>

\* impl From<PingapConf> for Vec<ServerConf>: one of the ServerConfs it gives
ConvertConf ==
    /\ stage = "conf"
    /\ \E sc \in Range(FromPingapConf(conf)) : serverConf' = sc
    /\ stage' = "server_conf"
    /\ UNCHANGED <<conf, server, cache_plugin, cache_value, bg_services, env, inputs>>
    /\ UNCHANGED pipeline_vars

\* the ServerConf of the admin listener
AdminConf ==
    /\ stage = "conf"
    /\ serverConf' = AdminServerConf
    /\ stage' = "server_conf"
    /\ UNCHANGED <<conf, server, cache_plugin, cache_value, bg_services, env, inputs>>
    /\ UNCHANGED pipeline_vars

\* Server::new
NewServer ==
    /\ stage = "server_conf"
    /\ server' = ServerNew(serverConf)
    /\ stage' = IF ServerNew(serverConf).ok THEN "server" ELSE "error"
    /\ UNCHANGED <<conf, serverConf, cache_plugin, cache_value, bg_services, env, inputs>>
    /\ UNCHANGED pipeline_vars

\* Server::run: the server is moved into its service and listens
Run ==
    /\ stage = "server"
    /\ stage' = "running"
    /\ conf' = NoConf
    /\ serverConf' = DefaultServerConf
    /\ bg_services' = run_bg_services(server)
    /\ UNCHANGED <<server, cache_plugin, cache_value, env, inputs>>
    /\ UNCHANGED pipeline_vars

InitBuild ==
    /\ stage = "conf"
    /\ conf \in PingapConfs
    /\ serverConf = DefaultServerConf
    /\ server = NoServer
    /\ cache_plugin = CacheNew(CachePluginValue)
    /\ cache_value = CachePluginValue
    /\ bg_services = <<>>
    /\ env = QuietEnv
    /\ accepted = 0
    /\ processing = 0
    /\ inputs = [r \in Reqs |-> NoRequest]
    /\ pc = [r \in Reqs |-> "idle"]
    /\ ctx = [r \in Reqs |-> NewCtx]
    /\ session = [r \in Reqs |-> NewSession(NoRequest)]
    /\ err = [r \in Reqs |-> NoError]
    /\ code = [r \in Reqs |-> 0]
    /\ result = [r \in Reqs |-> ""]
    /\ trace = [r \in Reqs |-> <<>>]
    /\ logged = [r \in Reqs |-> 0]

NextBuild == ConvertConf \/ AdminConf \/ NewServer \/ Run

SpecBuild == InitBuild /\ [][NextBuild]_vars

-----------------------------------------------------------------------------
(* The claims                                                              *)

Started(r) == pc[r] # "idle"
Logged(r) == pc[r] \in {"logged", "done"}

\* C1: once every request of the burst has been through its logging step,
\* the processing counter is back at the value it had before the burst,
\* which is the 0 Server::new gave it.
C1_ProcessingReturns ==
    (\A r \in Reqs : inputs[r] # NoRequest /\ Logged(r)) => processing = 0

\* the whole burst is over, some requests having failed and some not
C1_Witness ==
    /\ \A r \in Reqs : pc[r] = "done"
    /\ accepted = MaxReq
    /\ \E r \in Reqs : result[r] = "Failed"
    /\ \E r \in Reqs : result[r] = "Completed"

\* a request is accepted, for a counter, once request_filter has added to
\* that counter: line 302 for processing, line 303 for accepted
AcceptedForProcessing(r) == Started(r)
AcceptedForAccepted(r) == Started(r) /\ pc[r] # "request_filter"

C2_Counts ==
    /\ processing >= 0
    /\ processing = Cardinality({r \in Reqs : AcceptedForProcessing(r) /\ ~Logged(r)})
    /\ accepted = Cardinality({r \in Reqs : AcceptedForAccepted(r)})

\* C2: in every state, whatever the interleaving of the requests, the
\* processing counter is >= 0 and is the number of requests accepted and
\* not yet logged, and the accepted counter never decreases and is the
\* number of requests accepted so far.
C2_Counters == []C2_Counts /\ [][accepted' >= accepted]_vars

\* a request is between the two counter updates while another is over
C2_Witness ==
    /\ \E r \in Reqs : pc[r] = "request_filter"
    /\ \E r \in Reqs : pc[r] = "done"
    /\ processing = 1

Terminal(r) ==
    /\ pc[r] = "done"
    /\ result[r] \in {"Completed", "Failed"}
    /\ logged[r] = 1

C3_LoggedAtMostOnce ==
    \A r \in Reqs :
        /\ logged[r] <= 1
        /\ Logged(r) => logged[r] = 1
        /\ pc[r] = "done" => result[r] \in {"Completed", "Failed"}

\* C3: every accepted request eventually ends in exactly one of Completed
\* and Failed with its logging step run exactly once, whichever path it
\* took; no request is logged twice and none ends without being logged.
C3_EveryRequestLoggedOnce ==
    /\ []C3_LoggedAtMostOnce
    /\ \A r \in Reqs : (pc[r] = "request_filter") ~> Terminal(r)

\* a request of a proxying server has failed and is over, logged once
C3_Witness ==
    \E r \in Reqs : Terminal(r) /\ result[r] = "Failed" /\ ~server.admin

C4_Class(etype) ==
    CASE etype \in {"WriteError", "ReadError"} -> "read or write"
      [] etype = "ConnectionClosed" -> "closed"
      [] OTHER -> "other"

\* the reference table of C4: for each source, the code of each class of
\* error type
C4_Table ==
    [s \in ErrorSources |->
        CASE s = "Upstream" ->
                [k \in {"read or write", "closed", "other"} |-> 502]
          [] s = "Downstream" ->
                ("read or write" :> 500) @@ ("closed" :> 499) @@ ("other" :> 400)
          [] OTHER ->
                [k \in {"read or write", "closed", "other"} |-> 500]]

\* C4: the code fail_to_proxy computes is the explicit status the error
\* carries, whatever its source; otherwise it is the entry of the reference
\* table for the error's source and type: 502 for Upstream; for Downstream
\* 500 on a read or write error, 499 on connection-closed, 400 on any other
\* type; 500 for Internal and Unset.
C4_Classification ==
    \A r \in Reqs :
        pc[r] \in {"logging", "logged"} /\ result[r] = "Failed" =>
            code[r] = IF err[r].etype = "HTTPStatus" THEN err[r].status
                      ELSE C4_Table[err[r].esource][C4_Class(err[r].etype)]

\* the handler has classified a connection closed by the client
C4_Witness ==
    \E r \in Reqs :
        /\ pc[r] = "logged"
        /\ err[r] = Error("ConnectionClosed", "Downstream")
        /\ code[r] = 499

Routed(r) == ctx[r].location_index # NoIndex

MatchedBy(r, i) ==
    matched(server.locations[i], inputs[r].host, inputs[r].path)

\* C5: a routed request is bound to the first location, in the server's
\* order, whose host and path patterns both accept the request; no
\* location that accepts it has a higher weight than the one it is bound
\* to; the index is thus fixed by the server and the request's (host, path).
C5_FirstMatchWins ==
    \A r \in Reqs :
        Routed(r) =>
            LET i == ctx[r].location_index + 1
            IN  /\ i \in DOMAIN server.locations
                /\ MatchedBy(r, i)
                /\ \A j \in DOMAIN server.locations :
                     MatchedBy(r, j) =>
                        /\ i <= j
                        /\ get_weight(server.locations[j])
                              <= get_weight(server.locations[i])

\* two locations of different weight accept the request that was routed
C5_Witness ==
    \E r \in Reqs :
        /\ Routed(r)
        /\ \E j \in DOMAIN server.locations :
             /\ MatchedBy(r, j)
             /\ get_weight(server.locations[j])
                   < get_weight(server.locations[ctx[r].location_index + 1])

\* the position of the location named n in the list ls
PositionIn(ls, n) == CHOOSE i \in DOMAIN ls : ls[i].name = n

Has(r, name) == \E i \in DOMAIN trace[r] : trace[r][i] = name

\* what has run for the request after the first n steps of its trace
After(r, n) == SubSeq(trace[r], n + 1, Len(trace[r]))

NoMatch(r) ==
    /\ inputs[r] # NoRequest
    /\ ~server.admin
    /\ \A i \in DOMAIN server.locations : ~MatchedBy(r, i)

\* C7: a request that no location of the server matches goes from
\* request_filter straight to the failure handler and ends Failed with
\* status 500: location_index stays unset, no plugin chain, peer selection
\* or upstream phase runs for it, its cache context is untouched, and the
\* task does not panic.
C7_NoMatchFails ==
    \A r \in Reqs :
        NoMatch(r) =>
            /\ pc[r] # "panicked"
            /\ IsPrefix(trace[r], <<"request_filter", "fail_to_proxy", "logging">>)
            /\ ctx[r].location_index = NoIndex
            /\ session[r].cache = NoCache
            /\ pc[r] = "fail_to_proxy" => err[r] = new_internal_error(500)
            /\ pc[r] \in {"logging", "logged"} =>
                  code[r] = 500 /\ ctx[r].status = 500
            /\ pc[r] \in {"logging", "logged", "done"} => result[r] = "Failed"

\* a request that none of the server's locations matches has been logged
C7_Witness ==
    \E r \in Reqs :
        /\ NoMatch(r)
        /\ server.locations # <<>>
        /\ pc[r] = "logged"
        /\ ctx[r].status = 500

\* peer selection ran for the request and the failure handler came next
PeerSelectionFailed(r) ==
    \E i \in DOMAIN trace[r] :
        /\ trace[r][i] = "upstream_peer"
        /\ IF i = Len(trace[r]) THEN pc[r] = "fail_to_proxy"
           ELSE trace[r][i + 1] = "fail_to_proxy"

\* C8: when peer selection gives no peer the request goes to the failure
\* handler, whose code is 503, and ends Failed; connected_to_upstream,
\* upstream_request_filter and upstream_response_filter do not run for it.
C8_NoPeerIs503 ==
    \A r \in Reqs :
        PeerSelectionFailed(r) =>
            /\ ~Has(r, "connected_to_upstream")
            /\ ~Has(r, "connect_failed")
            /\ ~Has(r, "upstream_request_filter")
            /\ ~Has(r, "upstream_response_filter")
            /\ ~session[r].forwarded
            /\ ctx[r].upstream_address = ""
            /\ pc[r] \in {"fail_to_proxy", "logging", "logged"}
            /\ pc[r] \in {"logging", "logged"} =>
                  /\ code[r] = 503
                  /\ ctx[r].status = 503
                  /\ result[r] = "Failed"

\* a request whose upstream had no healthy peer has been logged
C8_Witness ==
    \E r \in Reqs :
        /\ PeerSelectionFailed(r)
        /\ pc[r] = "logged"
        /\ code[r] = 503

\* the plugin chain of the request answered with `answer`
ChainAnswered(r, answer) ==
    /\ Len(trace[r]) >= 3
    /\ SubSeq(trace[r], 1, 3) = <<"request_filter", "exec_proxy_plugins", answer>>

\* C9: what the plugin chain of the matched location answers decides the
\* next phase: after a short-circuit only logging runs and the request is
\* Completed; after an error the failure handler runs and then logging;
\* after continue peer selection is next; and peer selection never runs
\* unless the chain answered continue.
C9_ChainDecides ==
    \A r \in Reqs :
        /\ ChainAnswered(r, "plugins_done") =>
              /\ IsPrefix(After(r, 3), <<"logging">>)
              /\ pc[r] \in {"logging", "logged"}
              /\ result[r] = "Completed"
        /\ ChainAnswered(r, "plugins_error") =>
              /\ IsPrefix(After(r, 3), <<"fail_to_proxy", "logging">>)
              /\ pc[r] \in {"fail_to_proxy", "logging", "logged"}
              /\ result[r] # "Completed"
        /\ ChainAnswered(r, "plugins_continue") =>
              IF After(r, 3) = <<>> THEN pc[r] = "upstream_peer"
              ELSE After(r, 3)[1] = "upstream_peer"
        /\ (Has(r, "upstream_peer") \/ pc[r] = "upstream_peer") =>
              ChainAnswered(r, "plugins_continue")

\* a request whose plugin chain short-circuited has been logged
C9_Witness ==
    \E r \in Reqs :
        /\ ChainAnswered(r, "plugins_done")
        /\ pc[r] = "logged"

\* the plugin chain of the request has run
ChainRan(r) == Has(r, "exec_proxy_plugins")

\* C10: the cache plugin enables the cache on the session exactly when the
\* method is GET or HEAD; for any other method it answers continue and
\* leaves the session's cache context as it was, with no storage, lock,
\* predictor or size limit; and for every method it answers continue,
\* neither done nor an error.
C10_CacheOnlyGetHead ==
    /\ \A m \in Methods :
         LET h == CacheHandle(cache_plugin, NoCache, m)
         IN  /\ ~h.done /\ ~h.err
             /\ h.cache.enabled <=> m \in {"GET", "HEAD"}
             /\ m \notin {"GET", "HEAD"} => h.cache = NoCache
    /\ \A r \in Reqs :
         ChainRan(r) =>
            /\ session[r].cache.enabled <=> inputs[r].method \in {"GET", "HEAD"}
            /\ inputs[r].method \notin {"GET", "HEAD"} => session[r].cache = NoCache
            /\ server.locations[ctx[r].location_index + 1].plugins = <<"cache">>
                  => ChainAnswered(r, "plugins_continue")

\* a POST went through a chain that is the cache plugin alone, and went on
C10_Witness ==
    \E r \in Reqs :
        /\ inputs[r].method = "POST"
        /\ ChainAnswered(r, "plugins_continue")
        /\ server.locations[ctx[r].location_index + 1].plugins = <<"cache">>
        /\ session[r].cache = NoCache
        /\ pc[r] = "upstream_peer"

\* the configuration string of the plugin has the key among its query pairs
HasKey(key) == \E i \in DOMAIN cache_value.query : cache_value.query[i].key = key

Eligible(r) == inputs[r].method \in {"GET", "HEAD"}

\* C11: for an eligible (GET or HEAD) request the cache plugin wires the
\* eviction manager into the request's cache context exactly when the
\* plugin's configuration string set the eviction option, and wires none
\* when it is unset.
C11_EvictionWhenSet ==
    \A r \in Reqs :
        ChainRan(r) /\ Eligible(r) =>
            (session[r].cache.eviction <=> HasKey("eviction"))

\* the lock value the configuration string sets: that of its last `lock`
\* pair whose value is a u8, 0 when it has none
ConfiguredLock ==
    LET q == cache_value.query
        I == {i \in DOMAIN q : q[i].key = "lock" /\ ParseU8(q[i].value).ok}
    IN  IF I = {} THEN 0
        ELSE ParseU8(q[CHOOSE i \in I : \A j \in I : j <= i].value).v

\* C12 as it is stated: for an eligible request no lock is wired exactly
\* when the configured lock value is 0; for every other value one of the
\* three fixed locks is wired, and the values 1, 2 and 3 wire the lock of
\* 1, 2 and 3 seconds.
C12_Original ==
    \A r \in Reqs :
        ChainRan(r) /\ Eligible(r) =>
            /\ session[r].cache.lock = 0 <=> ConfiguredLock = 0
            /\ ConfiguredLock # 0 => session[r].cache.lock \in {1, 2, 3}
            /\ ConfiguredLock \in {1, 2, 3} => session[r].cache.lock = ConfiguredLock

\* C12, amended: for an eligible request a lock is wired exactly when the
\* configured lock value is 1, 2 or 3, and it is the process-wide lock of
\* that many seconds; for 0 and for every value above 3 no lock is wired.
C12_LockWired ==
    \A r \in Reqs :
        ChainRan(r) /\ Eligible(r) =>
            session[r].cache.lock =
                IF ConfiguredLock \in {1, 2, 3} THEN ConfiguredLock ELSE 0

\* a GET went through the plugin configured with lock=4: the cache is
\* enabled and no lock is wired
C12_Witness ==
    \E r \in Reqs :
        /\ ChainRan(r) /\ Eligible(r)
        /\ ConfiguredLock = 4
        /\ session[r].cache.enabled
        /\ session[r].cache.lock = 0

\* the positions of the pairs of the configuration string with the key
PairsOf(key) ==
    {i \in DOMAIN cache_value.query : cache_value.query[i].key = key}

\* the size the configuration string sets: that of its last max_file_size
\* pair whose value is a size, the default when it has none
ConfiguredSize ==
    LET q == cache_value.query
        I == {i \in PairsOf("max_file_size") : ParseByteSize(q[i].value).ok}
    IN  IF I = {} THEN 30 * 1024
        ELSE ParseByteSize(q[CHOOSE i \in I : \A j \in I : j <= i].value).v

NamedLocations ==
    UNION {conf.servers[i].locations :
             i \in {j \in DOMAIN conf.servers : conf.servers[j].name = serverConf.name}}

Dangling ==
    \/ \E n \in NamedLocations : n \notin Names(conf.locations)
    \/ \E i \in DOMAIN conf.locations :
         /\ conf.locations[i].name \in NamedLocations
         /\ conf.locations[i].upstream \notin Range(conf.upstreams)

\* C14: building a Server from a configuration in which the server names
\* a location that does not exist, or a location names an upstream that
\* does not exist, ends in an error: no Server is produced from it, and so
\* none whose location list lacks a location the configuration named.
C14_DanglingIsError ==
    stage = "server" /\ ~server.admin =>
        /\ ~Dangling
        /\ NamedLocations \subseteq Names(server.locations)

\* serve_admin ran for the request and the admin plugin answered `answer`
\* ("none": no admin plugin is registered)
AdminAnswered(r, answer) ==
    /\ Len(trace[r]) >= 3
    /\ SubSeq(trace[r], 1, 3) = <<"request_filter", "serve_admin", answer>>

\* C15: on a server whose admin flag is set, request_filter hands every
\* request to serve_admin right after the two counter updates; routing,
\* rewrite, the plugin chain and peer selection never run for it; the
\* request ends Completed when the admin plugin answers that it handled
\* the request, and Failed with status 500 when it answers that it did not.
C15_AdminOnly ==
    server.admin =>
        \A r \in Reqs :
            /\ Len(trace[r]) >= 2 => trace[r][2] = "serve_admin"
            /\ ~Has(r, "exec_proxy_plugins") /\ ~Has(r, "upstream_peer")
            /\ ~Has(r, "connected_to_upstream")
            /\ ~Has(r, "upstream_request_filter")
            /\ pc[r] \notin {"upstream_peer", "connect", "panicked"}
            /\ ctx[r].location_index = NoIndex
            /\ pc[r] \notin {"idle", "done"} =>
                  session[r].path = inputs[r].path /\ session[r].cache = NoCache
            /\ AdminAnswered(r, "done") =>
                  /\ IsPrefix(After(r, 3), <<"logging">>)
                  /\ pc[r] \in {"logging", "logged"}
                  /\ result[r] = "Completed"
            /\ AdminAnswered(r, "not_done") =>
                  /\ IsPrefix(After(r, 3), <<"fail_to_proxy", "logging">>)
                  /\ pc[r] \in {"fail_to_proxy", "logging", "logged"}
                  /\ pc[r] = "fail_to_proxy" => err[r] = new_internal_error(500)
                  /\ pc[r] \in {"logging", "logged"} =>
                        /\ code[r] = 500
                        /\ ctx[r].status = 500
                        /\ result[r] = "Failed"

\* the admin plugin answered that it did not handle the request, and the
\* request has been logged
C15_Witness ==
    /\ server.admin
    /\ \E r \in Reqs : AdminAnswered(r, "not_done") /\ pc[r] = "logged"

\* request_filter is over for the request, and its session is still there
Filtered(r) == Routed(r) /\ pc[r] \notin {"idle", "request_filter", "done"}

BoundLocation(r) == server.locations[ctx[r].location_index + 1]

\* what the bound location's rewrite gives for the path as it arrived
Rewritten(r) == rewrite(BoundLocation(r), inputs[r].path)

\* C16: when the matched location defines a rewrite, the URI forwarded
\* upstream is the rewritten path followed, if the request has a query, by
\* "?" and the query as it arrived, and the rewritten path alone if it has
\* none; when the location defines no rewrite the URI is as it arrived.
C16_RewriteKeepsQuery ==
    \A r \in Reqs :
        Filtered(r) =>
            /\ Rewritten(r).some /\ UriParses(Rewritten(r).path) =>
                  /\ session[r].path = Rewritten(r).path
                  /\ session[r].query = inputs[r].query
                  /\ FormatUri(session[r].path, session[r].query) =
                        IF inputs[r].query = "" THEN Rewritten(r).path
                        ELSE Rewritten(r).path \o <<"?">> \o <<inputs[r].query>>
            /\ ~Rewritten(r).some =>
                  /\ session[r].path = inputs[r].path
                  /\ session[r].query = inputs[r].query

\* a request with a query went upstream with its path rewritten
C16_Witness ==
    \E r \in Reqs :
        /\ Filtered(r)
        /\ Has(r, "upstream_request_filter")
        /\ inputs[r].query # ""
        /\ Rewritten(r).some
        /\ session[r].path # inputs[r].path
        /\ session[r].query = inputs[r].query

RewriteFails(r) == Rewritten(r).some /\ ~UriParses(Rewritten(r).path)

\* C17: when the rewritten path, with the query appended again, is no
\* valid URI, the request is not aborted: its URI stays as it arrived,
\* location_index is the location that matched the path as it arrived,
\* and that location's plugin chain runs next.
C17_BadRewriteKept ==
    \A r \in Reqs :
        Filtered(r) /\ RewriteFails(r) =>
            /\ session[r].path = inputs[r].path
            /\ session[r].query = inputs[r].query
            /\ MatchedBy(r, ctx[r].location_index + 1)
            /\ ctx[r].location_index =
                  find_matched(server.locations, inputs[r].host, inputs[r].path)
            /\ Len(trace[r]) >= 3
            /\ SubSeq(trace[r], 1, 2) = <<"request_filter", "exec_proxy_plugins">>
            /\ \E answer \in {"plugins_continue", "plugins_done", "plugins_error"} :
                  ChainAnswered(r, answer)

\* a request whose rewrite gave no valid URI went on to its upstream
C17_Witness ==
    \E r \in Reqs :
        /\ Filtered(r) /\ RewriteFails(r)
        /\ inputs[r].query # ""
        /\ Has(r, "upstream_request_filter")

\* the code the claims give an error: its explicit status, else the entry
\* of the reference table
ClassifiedCode(e) ==
    IF e.etype = "HTTPStatus" THEN e.status
    ELSE C4_Table[e.esource][C4_Class(e.etype)]

FailToProxyRan(r) == Has(r, "fail_to_proxy")

\* C18: the failure handler never fails the request again: whether or not
\* the writes of the error response succeed, it returns the classified
\* code, the error stays the one it was given, it runs once and logging
\* follows it, once; and keep-alive is off on the session when the
\* response is written.
C18_FailureHandledOnce ==
    \A r \in Reqs :
        FailToProxyRan(r) =>
            /\ Cardinality({i \in DOMAIN trace[r] : trace[r][i] = "fail_to_proxy"}) = 1
            /\ \E i \in DOMAIN trace[r] :
                  trace[r][i] = "fail_to_proxy" /\ IsPrefix(After(r, i), <<"logging">>)
            /\ pc[r] \in {"logging", "logged"}
            /\ logged[r] = IF pc[r] = "logged" THEN 1 ELSE 0
            /\ err[r] # NoError
            /\ code[r] = ClassifiedCode(err[r])
            /\ result[r] = "Failed"
            /\ ~session[r].keepalive
            /\ session[r].keepalive_at_write = "off"
            /\ session[r].header_write \in {"ok", "failed"}
            /\ session[r].body_write \in {"ok", "failed"}

\* both writes of the error response failed and the request was logged
C18_Witness ==
    \E r \in Reqs :
        /\ FailToProxyRan(r)
        /\ session[r].header_write = "failed"
        /\ session[r].body_write = "failed"
        /\ pc[r] = "logged"

\* request q takes no part in the step
Idle(q) == pc'[q] = pc[q] /\ trace'[q] = trace[q]

Failing(r) == pc[r] = "fail_to_proxy" \/ result[r] = "Failed"

\* a step of the model, seen from the requests that take no part in it:
\* the server with its locations and upstreams and the cache plugin are
\* the same after it, and so are the State, the session, the error and
\* the outcome of every request that did not take the step; of the shared
\* state only the two counters may change
FrameStep ==
    /\ server' = server
    /\ cache_plugin' = cache_plugin
    /\ env' = env
    /\ \A q \in Reqs :
         Idle(q) =>
            /\ ctx'[q] = ctx[q]
            /\ session'[q] = session[q]
            /\ err'[q] = err[q]
            /\ code'[q] = code[q]
            /\ result'[q] = result[q]
            /\ logged'[q] = logged[q]
    /\ \E r \in Reqs : \A q \in Reqs \ {r} : Idle(q)

HeadersFiltered(r) ==
    Cardinality({i \in DOMAIN trace[r] : trace[r][i] = "upstream_response_filter"})

\* the step is a run of upstream_response_filter for request r
FiltersResponse(r) ==
    /\ pc[r] = "upstream_response_filter"
    /\ trace'[r] = Append(trace[r], "upstream_response_filter")

\* the step is the run of fail_to_proxy for request r
FailsToProxy(r) == pc[r] = "fail_to_proxy" /\ pc'[r] = "logging"

\* the step drops the State of request r
Drops(r) == pc[r] = "logged" /\ pc'[r] = "done"

StatusStep ==
    \A r \in Reqs :
        /\ FiltersResponse(r) =>
              ctx'[r].status = IF ctx[r].status = NoStatus
                               THEN session'[r].response_written
                               ELSE ctx[r].status
        /\ (ctx[r].status # NoStatus /\ ctx'[r].status # ctx[r].status) =>
              FailsToProxy(r) \/ Drops(r)
        /\ FailsToProxy(r) =>
              ctx'[r].status = StatusFromU16(ClassifiedCode(err[r]))

\* C20: upstream_response_filter writes State.status only when none is
\* recorded, so the status of a later response header never replaces a
\* recorded one; fail_to_proxy is the only handler that replaces a recorded
\* status, and after it the status is that of the classified error, also
\* when an upstream's status had been recorded before.
C20_StatusFirstWriterWins == [][StatusStep]_vars

\* a request whose upstream sent two headers, the second of which left the
\* recorded status alone, and which then failed: the status is the error's
C20_Witness ==
    \E r \in Reqs :
        /\ HeadersFiltered(r) = 2
        /\ Has(r, "downstream_failed")
        /\ pc[r] = "logged"
        /\ result[r] = "Failed"
        /\ ctx[r].status = 499
        /\ session[r].response_written = 200

\* C21: when the terminal State of a request is formatted for the log its
\* status is set, to the status recorded earlier or else to that of the
\* response written downstream, on every path, the plugin chain answering
\* the request and the admin listener included; and the State is formatted
\* at most once per request.
C21_StatusSetWhenLogged ==
    \A r \in Reqs :
        /\ logged[r] <= 1
        /\ pc[r] = "logged" =>
              /\ result[r] \in {"Completed", "Failed"}
              /\ ctx[r].status # NoStatus

\* the background services that refresh upstream u
RefreshTasksOf(u) == {i \in DOMAIN bg_services : bg_services[i] = u}

\* C22: Server::run registers exactly one background refresh task for each
\* distinct upstream the server uses, so that an upstream's health and peer
\* state has one writer: two locations of the server that name the same
\* upstream do not give two tasks for it.
C22_OneRefreshPerUpstream ==
    stage = "running" =>
        /\ \A u \in Range(server.upstreams) : Cardinality(RefreshTasksOf(u)) = 1
        /\ \A i \in DOMAIN bg_services : bg_services[i] \in Range(server.upstreams)

\* the handlers and framework steps of the trace of a request, without the
\* answers recorded next to them
Phases(r) ==
    SelectSeq(trace[r],
              LAMBDA n : n \in {"request_filter", "upstream_peer",
                                "connected_to_upstream", "connect_failed",
                                "upstream_request_filter",
                                "upstream_response_filter", "read_failed",
                                "upstream_response_body_filter",
                                "downstream_failed", "fail_to_proxy",
                                "logging"})

\* the place of a phase in the pipeline
PhaseRank(n) ==
    CASE n = "request_filter" -> 1
      [] n = "upstream_peer" -> 2
      [] n \in {"connected_to_upstream", "connect_failed"} -> 3
      [] n = "upstream_request_filter" -> 4
      [] n \in {"upstream_response_filter", "read_failed"} -> 5
      [] n = "upstream_response_body_filter" -> 6
      [] n = "downstream_failed" -> 7
      [] n = "fail_to_proxy" -> 8
      [] OTHER -> 9

\* the phases ran in the order of the pipeline, each once but for the body
\* filter, which runs once per chunk
InPipelineOrder(r) ==
    LET p == Phases(r)
    IN  /\ p # <<>> => p[1] = "request_filter"
        /\ \A i, j \in DOMAIN p :
              i < j => \/ PhaseRank(p[i]) < PhaseRank(p[j])
                       \/ p[i] = "upstream_response_body_filter" /\ p[j] = p[i]

\* peer selection is the next step of the request, or has run
AtPeerSelection(r) == pc[r] = "upstream_peer" \/ Has(r, "upstream_peer")

\* C23: within one request the phases run in the order of the pipeline, and
\* whenever upstream_peer runs the request's location_index is set, is an
\* index of the server's location list, and is the index of the location
\* that routing matched for the request: unwrap_or_default never falls
\* back on index 0, and the peer is that of the matched location's upstream.
C23_PeerFromMatchedLocation ==
    \A r \in Reqs :
        /\ InPipelineOrder(r)
        /\ pc[r] # "panicked"
        /\ AtPeerSelection(r) =>
              /\ ctx[r].location_index # NoIndex
              /\ ctx[r].location_index + 1 \in DOMAIN server.locations
              /\ ctx[r].location_index =
                    find_matched(server.locations, inputs[r].host, inputs[r].path)
              /\ IsPrefix(<<"request_filter", "exec_proxy_plugins",
                            "plugins_continue">>, trace[r])
        /\ Has(r, "connected_to_upstream") =>
              ctx[r].upstream_address =
                  PeerAddress(server.locations[
                      find_matched(server.locations, inputs[r].host,
                                   inputs[r].path) + 1].upstream)

\* a peer was selected for a request that the second location of the list
\* matched, the first one having another upstream
C23_Witness ==
    \E r \in Reqs :
        /\ Has(r, "connected_to_upstream")
        /\ ctx[r].location_index = 1
        /\ server.locations[1].upstream # server.locations[2].upstream
        /\ pc[r] = "logged"

\* the requests that hold a State with its accepted snapshot taken
HoldsAccepted(r) == AcceptedForAccepted(r) /\ pc[r] # "done"

\* the requests in flight: accepted for the processing counter, not logged
InFlight == {r \in Reqs : AcceptedForProcessing(r) /\ ~Logged(r)}

AcceptedSnapshots ==
    /\ \A r, q \in Reqs :
          HoldsAccepted(r) /\ HoldsAccepted(q) /\ r # q =>
              ctx[r].accepted # ctx[q].accepted
    /\ \A r \in Reqs : HoldsAccepted(r) => ctx[r].accepted \in 0..(accepted - 1)
    /\ (\A r \in Reqs : pc[r] # "done") =>
          {ctx[r].accepted : r \in {q \in Reqs : HoldsAccepted(q)}}
             = 0..(accepted - 1)
    /\ \A r \in Reqs : Started(r) /\ pc[r] # "done" => ctx[r].processing >= 0

SnapshotStep ==
    \A r \in Reqs :
        /\ (pc[r] = "idle" /\ pc'[r] # "idle") =>
              /\ ctx'[r].processing >= 0
              /\ ctx'[r].processing < Cardinality(InFlight')
              /\ ctx'[r].processing = Cardinality(InFlight)
        /\ (pc[r] = "request_filter" /\ pc'[r] # "request_filter") =>
              /\ ctx'[r].accepted = accepted
              /\ accepted' = accepted + 1
              /\ ctx'[r].processing = ctx[r].processing
        /\ (HoldsAccepted(r) /\ pc'[r] # "done") =>
              /\ ctx'[r].accepted = ctx[r].accepted
              /\ ctx'[r].processing = ctx[r].processing

\* C24: under any interleaving of the requests of one server, the accepted
\* snapshots in the requests' States are pairwise distinct, and those of
\* the first n accepted requests are the values 0..n-1, each request
\* recording the counter before its own increment; the processing snapshot
\* of a request is >= 0 and smaller than the number of requests in flight
\* right after line 302 counted the request in.
C24_Snapshots == []AcceptedSnapshots /\ [][SnapshotStep]_vars

\* the request that was counted in second took its accepted snapshot first,
\* while the other was in flight
C24_Witness ==
    \E r, q \in Reqs :
        /\ r < q
        /\ HoldsAccepted(r) /\ HoldsAccepted(q)
        /\ ctx[r].accepted = 1 /\ ctx[q].accepted = 0
        /\ ctx[q].processing = 1

\* C25: after fail_to_proxy the terminal State describes the error response
\* that was sent: its status is the code fail_to_proxy returns and its
\* response_body_size is the length of the error body, the value of
\* Content-Length, whatever count of upstream body bytes it held before;
\* for every error, those carrying an explicit status of any u16 value
\* included.
C25_StateDescribesErrorResponse ==
    \A r \in Reqs :
        FailToProxyRan(r) =>
            /\ ctx[r].status = code[r]
            /\ ctx[r].response_body_size = Len(ErrorBody(err[r]))

====
